---- MODULE Spec2Model ----
(***************************************************************************)
(* Model of the jstime host event loop (core/src/builtins/mod.rs and       *)
(* core/src/lib.rs): the setTimeout and fetch bindings, Context::fetch,    *)
(* the worker thread spawned by Builtins::init, and tick().                *)
(*                                                                         *)
(* The engine thread runs fetch, set_timeout and tick; the worker thread   *)
(* runs concurrently and shares only the two channels with it.             *)
(***************************************************************************)
EXTENDS Integers, Sequences, FiniteSets, TLC

(* ------------------------------ bounds -------------------------------- *)

\* Width of promise_counter in the model (u32 in the source).
IdWidth == 2

IdMod == 2 ^ IdWidth

\* Fetch calls beyond the point at which promise_counter has taken every value.
MaxExtraFetches == 2

MaxFetches == IdMod + MaxExtraFetches

\* setTimeout calls that schedule something (a Timer Entry or a microtask).
MaxTimers == 1

\* The wall clock runs from 0 to MaxNow.
MaxNow == 1

(* --------------------------- operation inputs ------------------------- *)

\* Arguments of a setTimeout call: number of arguments, whether the first is
\* a function, whether the second is a number, and its value.
SetTimeoutArgs ==
    { [argc |-> 0, is_function |-> FALSE, is_number |-> FALSE, delay |-> 0],
      [argc |-> 1, is_function |-> FALSE, is_number |-> FALSE, delay |-> 0],
      [argc |-> 1, is_function |-> TRUE,  is_number |-> FALSE, delay |-> 0],
      [argc |-> 2, is_function |-> TRUE,  is_number |-> FALSE, delay |-> 0],
      [argc |-> 2, is_function |-> TRUE,  is_number |-> TRUE,  delay |-> -1],
      [argc |-> 2, is_function |-> TRUE,  is_number |-> TRUE,  delay |-> 0],
      [argc |-> 2, is_function |-> TRUE,  is_number |-> TRUE,  delay |-> 1] }

\* Arguments of a fetch call: the kind of the resource argument and the kind
\* of the init argument (absent, not an object, an object whose headers
\* property is undefined, a non-object, or an object).
FetchArgs ==
    { [resource |-> "missing", init |-> "absent"],
      [resource |-> "number",  init |-> "absent"],
      [resource |-> "string",  init |-> "absent"],
      [resource |-> "string",  init |-> "number"],
      [resource |-> "string",  init |-> "no_headers"],
      [resource |-> "string",  init |-> "headers_number"],
      [resource |-> "string",  init |-> "headers_object"] }

\* What ureq's call() can return for request number n: Ok(response), whose
\* status is tagged with n so that two requests never share one, or Err.
CallResults(n) ==
    { [ok |-> TRUE,  status |-> 200 + n],
      [ok |-> FALSE, status |-> 0] }

(* ------------------------------- state -------------------------------- *)

VARIABLES
    timers,               \* isolate slot TimerQueue: sequence of TimerEvent
    tq,                   \* Context.tq: sequence of TimerEvent
    outstanding_promises, \* Context.outstanding_promises: id -> resolver
    promise_counter,      \* Context.promise_counter
    requests,             \* channel engine -> worker (send2 / recv2)
    responses,            \* channel worker -> engine (send / recv)
    worker_req,           \* the request the worker is serving (<<>> if none)
    fetch_pc,             \* Context::fetch between send and insert (<<>> if not)
    host,                 \* "running" or the panic that ended the engine thread
    thrown,               \* exception thrown by the last binding call ("" if none)
    microtasks,           \* callbacks handed to enqueue_microtask
    now,                  \* epoch milliseconds
    issued,               \* history: ids sent on the request channel, in order
    worker_results,       \* history: result the worker produced per request
    settled,              \* history: resolve / reject applied to resolvers
    fired,                \* history: timer callbacks invoked by tick
    tick_ret,             \* return of tick if it was the last engine-thread
                          \* call ("none" after a binding call)
    snapshot,             \* options.snapshot.is_some()
    boot_pc,              \* position of JSTime::create ("ready" once it returned)
    bindings,             \* names set on the bindings object by Builtins::create
    evaluated             \* builtin source units run by Builtins::create, in order

ctx_vars == <<tq, outstanding_promises, promise_counter, requests, responses>>

hist_vars == <<issued, worker_results, settled, fired>>

vars == <<timers, tq, outstanding_promises, promise_counter, requests,
          responses, worker_req, fetch_pc, host, thrown, microtasks, now,
          issued, worker_results, settled, fired, tick_ret,
          snapshot, boot_pc, bindings, evaluated>>

boot_vars == <<snapshot, boot_pc, bindings, evaluated>>

\* binding!(name, fn) of Builtins::create.
binding_names ==
    {"printer", "perfNow", "fetch", "queueMicrotask", "randomFloat",
     "setTimeout"}

\* builtin!(file) of Builtins::create with two units exchanged.
builtin_units_swapped ==
    << "./console.js", "./crypto.js", "./fetch.js", "./timers.js",
       "./performance.js", "./encoders.js", "./queue_microtask.js" >>

\* builtin!(file) of Builtins::create, in the order of the calls.
builtin_units ==
    << "./console.js", "./crypto.js", "./timers.js", "./fetch.js",
       "./performance.js", "./encoders.js", "./queue_microtask.js" >>

(* ------------------------------ helpers ------------------------------- *)

TimerQueue_new == << >>

TimerQueue_empty(q) == Len(q) = 0

epoch_millis == now

\* `delay.value() as u128`: a float to unsigned cast saturates at 0.
as_u128(d) == IF d < 0 THEN 0 ELSE d

HashMap_insert_other_key(m, k, v) ==
    LET k2 == (k + 1) % IdMod
    IN  [x \in (DOMAIN m) \cup {k2} |-> IF x = k2 THEN v ELSE m[x]]

HashMap_insert(m, k, v) ==
    [x \in (DOMAIN m) \cup {k} |-> IF x = k THEN v ELSE m[x]]

HashMap_remove_wrong(m, k) ==
    LET big == CHOOSE x \in DOMAIN m : \A y \in DOMAIN m : y <= x
    IN  [x \in (DOMAIN m) \ {big} |-> m[x]]

HashMap_remove(m, k) == [x \in (DOMAIN m) \ {k} |-> m[x]]

EngineReady == host = "running" /\ fetch_pc = << >>

(* -------------------------------- Init -------------------------------- *)

Init ==
    /\ timers = TimerQueue_new
    /\ tq = TimerQueue_new
    /\ outstanding_promises = << >>
    /\ promise_counter = 0
    /\ requests = << >>
    /\ responses = << >>
    /\ worker_req = << >>
    /\ fetch_pc = << >>
    /\ host = "running"
    /\ thrown = ""
    /\ microtasks = << >>
    /\ now = 0
    /\ issued = << >>
    /\ worker_results = {}
    /\ settled = << >>
    /\ fired = << >>
    /\ tick_ret = "none"
    /\ snapshot = FALSE
    /\ boot_pc = "ready"
    /\ bindings = binding_names
    /\ evaluated = builtin_units

(* ---------------------------- set_timeout ----------------------------- *)

\* set_timeout pushing the TimerEvent to the queue of the Context.
set_timeout_into_ctx_tq(args) ==
    /\ EngineReady
    /\ IF args.argc = 0
       THEN /\ thrown' = ""
            /\ UNCHANGED <<timers, tq, microtasks>>
       ELSE IF ~args.is_function
       THEN /\ thrown' = "Callback must be a function"
            /\ UNCHANGED <<timers, tq, microtasks>>
       ELSE IF args.argc = 1
       THEN /\ Len(timers) + Len(tq) + Len(microtasks) < MaxTimers
            /\ microtasks' = Append(microtasks,
                                    Len(timers) + Len(tq) + Len(microtasks) + 1)
            /\ thrown' = ""
            /\ UNCHANGED <<timers, tq>>
       ELSE IF ~args.is_number
       THEN /\ thrown' = "Delay must be a number"
            /\ UNCHANGED <<timers, tq, microtasks>>
       ELSE /\ Len(timers) + Len(tq) + Len(microtasks) < MaxTimers
            /\ tq' = Append(tq,
                   [call_at  |-> now + (IF args.delay < 0 THEN 0 ELSE args.delay),
                    func     |-> Len(timers) + Len(tq) + Len(microtasks) + 1,
                    interval |-> "None"])
            /\ thrown' = ""
            /\ UNCHANGED <<timers, microtasks>>
    /\ tick_ret' = "none"
    /\ UNCHANGED <<outstanding_promises, promise_counter, requests, responses,
                   hist_vars, worker_req, fetch_pc, host, now, snapshot,
                   boot_pc, bindings, evaluated>>

set_timeout(args) ==
    /\ EngineReady
    /\ IF args.argc = 0
       THEN /\ thrown' = ""
            /\ UNCHANGED <<timers, microtasks>>
       ELSE IF ~args.is_function
       THEN /\ thrown' = "Callback must be a function"
            /\ UNCHANGED <<timers, microtasks>>
       ELSE IF args.argc = 1
       THEN /\ Len(timers) + Len(microtasks) < MaxTimers
            /\ microtasks' = Append(microtasks, Len(timers) + Len(microtasks) + 1)
            /\ thrown' = ""
            /\ UNCHANGED timers
       ELSE IF ~args.is_number
       THEN /\ thrown' = "Delay must be a number"
            /\ UNCHANGED <<timers, microtasks>>
       ELSE /\ Len(timers) + Len(microtasks) < MaxTimers
            /\ timers' = Append(timers,
                   [call_at  |-> epoch_millis + as_u128(args.delay),
                    func     |-> Len(timers) + Len(microtasks) + 1,
                    interval |-> "None"])
            /\ thrown' = ""
            /\ UNCHANGED microtasks
    /\ tick_ret' = "none"
    /\ UNCHANGED <<ctx_vars, hist_vars, worker_req, fetch_pc, host, now>>
    /\ UNCHANGED boot_vars

SetTimeout == \E args \in SetTimeoutArgs : set_timeout(args)

(* ------------------------------- fetch -------------------------------- *)

\* The argument checks of fetch without the is_string test of the resource.
fetch_check_any_resource(args) ==
    IF args.resource = "missing"
    THEN "1 argument required, but only 0 present"
    ELSE IF args.init \in {"absent", "headers_object"}
    THEN ""
    ELSE IF args.init = "number"
    THEN "fetch init argument must be an object"
    ELSE "headers must be an object"

\* The argument checks of the fetch binding: the message of the exception
\* it raises, or "" when the call goes on to Context::fetch.
fetch_check(args) ==
    IF args.resource = "missing"
    THEN "1 argument required, but only 0 present"
    ELSE IF args.resource # "string"
    THEN "first argument to fetch must be a string"
    ELSE IF args.init = "absent"
    THEN ""
    ELSE IF args.init = "number"
    THEN "fetch init argument must be an object"
    ELSE IF args.init # "headers_object"
    THEN "headers must be an object"
    ELSE ""

\* `self.promise_counter += 1` on a u32: with overflow checks the addition
\* panics at the maximum, without them it wraps.
counter_overflows == promise_counter = IdMod - 1

next_counter == (promise_counter + 1) % IdMod

\* fetch binding up to and including the send of Context::fetch.
fetch(args) ==
    /\ EngineReady
    /\ IF fetch_check(args) # ""
       THEN /\ thrown' = fetch_check(args)
            /\ UNCHANGED <<ctx_vars, hist_vars, fetch_pc, host>>
       ELSE /\ Len(issued) < MaxFetches
            /\ thrown' = ""
            /\ \/ /\ counter_overflows
                  /\ host' = "panic_overflow"
                  /\ UNCHANGED <<ctx_vars, hist_vars, fetch_pc>>
               \/ /\ promise_counter' = next_counter
                  /\ requests' = Append(requests,
                         [id |-> promise_counter', value |-> Len(issued) + 1])
                  /\ issued' = Append(issued, promise_counter')
                  /\ fetch_pc' = << [id |-> promise_counter',
                                     pr |-> Len(issued) + 1] >>
                  /\ UNCHANGED <<tq, outstanding_promises, responses,
                                 worker_results, settled, fired, host>>
    /\ tick_ret' = "none"
    /\ UNCHANGED <<timers, microtasks, worker_req, now>>
    /\ UNCHANGED boot_vars

Fetch == \E args \in FetchArgs : fetch(args)

\* The last statement of Context::fetch: record the resolver under the id.
Context_fetch_insert ==
    /\ host = "running"
    /\ fetch_pc # << >>
    /\ outstanding_promises' =
           HashMap_insert(outstanding_promises, fetch_pc[1].id, fetch_pc[1].pr)
    /\ fetch_pc' = << >>
    /\ UNCHANGED <<timers, tq, promise_counter, requests, responses,
                   worker_req, host, thrown, microtasks, now, hist_vars,
                   tick_ret>>
    /\ UNCHANGED boot_vars

(* ------------------------------- worker ------------------------------- *)

WorkerRecv ==
    /\ worker_req = << >>
    /\ requests # << >>
    /\ worker_req' = << Head(requests) >>
    /\ requests' = Tail(requests)
    /\ UNCHANGED <<timers, tq, outstanding_promises, promise_counter,
                   responses, fetch_pc, host, thrown, microtasks, now,
                   hist_vars, tick_ret>>
    /\ UNCHANGED boot_vars

\* The worker loop ending on a failed call without sending a response.
WorkerCall_drops_failures ==
    /\ worker_req # << >>
    /\ \E r \in CallResults(worker_req[1].value) :
          IF r.ok
          THEN /\ responses' = Append(responses,
                                      [id |-> worker_req[1].id, value |-> r])
               /\ worker_results' = worker_results \cup
                                      {[req |-> worker_req[1].value, value |-> r]}
          ELSE UNCHANGED <<responses, worker_results>>
    /\ worker_req' = << >>
    /\ UNCHANGED <<timers, tq, outstanding_promises, promise_counter,
                   requests, fetch_pc, host, thrown, microtasks, now,
                   issued, settled, fired, tick_ret, snapshot, boot_pc,
                   bindings, evaluated>>

\* The worker loop also taking the entry of the request out of the mapping.
WorkerCall_touches_mapping ==
    /\ worker_req # << >>
    /\ \E r \in CallResults(worker_req[1].value) :
          /\ responses' = Append(responses,
                                 [id |-> worker_req[1].id, value |-> r])
          /\ worker_results' = worker_results \cup
                                 {[req |-> worker_req[1].value, value |-> r]}
    /\ outstanding_promises' =
          [x \in (DOMAIN outstanding_promises) \ {worker_req[1].id} |->
              outstanding_promises[x]]
    /\ worker_req' = << >>
    /\ UNCHANGED <<timers, tq, promise_counter,
                   requests, fetch_pc, host, thrown, microtasks, now,
                   issued, settled, fired, tick_ret, snapshot, boot_pc,
                   bindings, evaluated>>

WorkerCall ==
    /\ worker_req # << >>
    /\ \E r \in CallResults(worker_req[1].value) :
          /\ responses' = Append(responses,
                                 [id |-> worker_req[1].id, value |-> r])
          /\ worker_results' = worker_results \cup
                                 {[req |-> worker_req[1].value, value |-> r]}
    /\ worker_req' = << >>
    /\ UNCHANGED <<timers, tq, outstanding_promises, promise_counter,
                   requests, fetch_pc, host, thrown, microtasks, now,
                   issued, settled, fired, tick_ret>>
    /\ UNCHANGED boot_vars

(* -------------------------------- tick -------------------------------- *)

\* tick returns false: nothing is touched.
tick_return_false_resets ==
    /\ tick_ret' = "false"
    /\ promise_counter' = 0
    /\ UNCHANGED <<tq, outstanding_promises, requests, responses, settled,
                   host>>

tick_return_false ==
    /\ tick_ret' = "false"
    /\ UNCHANGED <<ctx_vars, settled, host>>

\* `if let Some(result) = possible_promise { ... }` ignoring an unknown id.
tick_apply_ignoring_unknown(result) ==
    IF result.id \notin DOMAIN outstanding_promises
    THEN /\ tick_ret' = "true"
         /\ UNCHANGED <<outstanding_promises, settled, host>>
    ELSE /\ outstanding_promises' = HashMap_remove(outstanding_promises, result.id)
         /\ IF ~result.value.ok
            THEN /\ host' = "panic_unwrap_err"
                 /\ tick_ret' = "panic"
                 /\ UNCHANGED settled
            ELSE /\ settled' = Append(settled,
                        [pr    |-> outstanding_promises[result.id],
                         kind  |-> "resolve",
                         value |-> result.value.status])
                 /\ tick_ret' = "true"
                 /\ UNCHANGED host

\* `if let Some(result) = possible_promise { ... }`: remove(..).unwrap(),
\* result.value.unwrap(), resolve.
tick_apply(result) ==
    IF result.id \notin DOMAIN outstanding_promises
    THEN /\ host' = "panic_unknown_id"
         /\ tick_ret' = "panic"
         /\ UNCHANGED <<outstanding_promises, settled>>
    ELSE /\ outstanding_promises' = HashMap_remove(outstanding_promises, result.id)
         /\ IF ~result.value.ok
            THEN /\ host' = "panic_unwrap_err"
                 /\ tick_ret' = "panic"
                 /\ UNCHANGED settled
            ELSE /\ settled' = Append(settled,
                        [pr    |-> outstanding_promises[result.id],
                         kind  |-> "resolve",
                         value |-> result.value.status])
                 /\ tick_ret' = "true"
                 /\ UNCHANGED host

tick_receive ==
    /\ responses # << >>
    /\ responses' = Tail(responses)
    /\ tick_apply(Head(responses))
    /\ UNCHANGED <<tq, promise_counter, requests>>

tick ==
    /\ EngineReady
    /\ thrown' = ""
    /\ LET no_promises == Cardinality(DOMAIN outstanding_promises) = 0
           no_timers   == TimerQueue_empty(tq)
       IN  IF no_promises /\ no_timers
           THEN tick_return_false
           ELSE IF no_promises
           THEN tick_return_false
           ELSE IF no_timers
           THEN tick_receive                       \* recv() blocks
           ELSE \/ tick_receive                    \* recv_timeout: Ok(v)
                \/ /\ tick_ret' = "true"           \* recv_timeout: Err(_)
                   /\ UNCHANGED <<ctx_vars, settled, host>>
    /\ UNCHANGED <<timers, worker_req, fetch_pc, microtasks, now,
                   issued, worker_results, fired>>
    /\ UNCHANGED boot_vars

(* -------------------------------- clock ------------------------------- *)

ClockAdvance ==
    /\ now < MaxNow
    /\ now' = now + 1
    /\ UNCHANGED <<timers, ctx_vars, worker_req, fetch_pc, host, thrown,
                   microtasks, hist_vars, tick_ret>>
    /\ UNCHANGED boot_vars

Next ==
    \/ SetTimeout
    \/ Fetch
    \/ Context_fetch_insert
    \/ WorkerRecv
    \/ WorkerCall
    \/ tick
    \/ ClockAdvance

Spec == Init /\ [][Next]_vars

(* ---------------------------- JSTime::create --------------------------- *)

\* Before Builtins::init has run the isolate has no TimerQueue and no
\* Context slot: the queues and channels are shown empty and the counter,
\* which no Context holds yet, as NoContext.
NoContext == 0 - 1

InitCreate ==
    /\ snapshot \in BOOLEAN
    /\ boot_pc = "create"
    /\ bindings = {}
    /\ evaluated = << >>
    /\ timers = << >>
    /\ tq = << >>
    /\ outstanding_promises = << >>
    /\ promise_counter = NoContext
    /\ requests = << >>
    /\ responses = << >>
    /\ worker_req = << >>
    /\ fetch_pc = << >>
    /\ host = "running"
    /\ thrown = ""
    /\ microtasks = << >>
    /\ now = 0
    /\ issued = << >>
    /\ worker_results = {}
    /\ settled = << >>
    /\ fired = << >>
    /\ tick_ret = "none"

\* Builtins::create, the binding! calls (only without a snapshot).
Builtins_create_bindings ==
    /\ boot_pc = "create"
    /\ ~snapshot
    /\ bindings' = binding_names
    /\ boot_pc' = "builtins"
    /\ UNCHANGED <<timers, ctx_vars, worker_req, fetch_pc, host, thrown,
                   microtasks, now, hist_vars, tick_ret, snapshot, evaluated>>

\* Builtins::create, one builtin! call: run the next source unit.
Builtins_create_builtin ==
    /\ boot_pc = "builtins"
    /\ Len(evaluated) < Len(builtin_units)
    /\ evaluated' = Append(evaluated, builtin_units[Len(evaluated) + 1])
    /\ UNCHANGED <<timers, ctx_vars, worker_req, fetch_pc, host, thrown,
                   microtasks, now, hist_vars, tick_ret, snapshot, boot_pc,
                   bindings>>

\* Builtins::init, which JSTime::create calls with or without a snapshot.
Builtins_init ==
    /\ \/ boot_pc = "create" /\ snapshot
       \/ boot_pc = "builtins" /\ Len(evaluated) = Len(builtin_units)
    /\ timers' = TimerQueue_new
    /\ tq' = TimerQueue_new
    /\ outstanding_promises' = << >>
    /\ promise_counter' = 0
    /\ requests' = << >>
    /\ responses' = << >>
    /\ worker_req' = << >>
    /\ boot_pc' = "ready"
    /\ UNCHANGED <<fetch_pc, host, thrown, microtasks, now, hist_vars,
                   tick_ret, snapshot, bindings, evaluated>>

NextCreate ==
    \/ Builtins_create_bindings
    \/ Builtins_create_builtin
    \/ Builtins_init
    \/ boot_pc = "ready" /\ SetTimeout
    \/ boot_pc = "ready" /\ Fetch
    \/ boot_pc = "ready" /\ Context_fetch_insert
    \/ boot_pc = "ready" /\ ClockAdvance
    \/ boot_pc = "ready" /\ tick

SpecCreate == InitCreate /\ [][NextCreate]_vars

TypeOK ==
    /\ promise_counter \in 0..(IdMod - 1)
    /\ Len(issued) <= MaxFetches
    /\ host \in {"running", "panic_overflow", "panic_unknown_id",
                 "panic_unwrap_err"}
    /\ tick_ret \in {"none", "true", "false", "panic"}

(* ----------------------- observations for the claims ------------------- *)

\* A step of the engine thread that is a call of tick().
IsTickStep ==
    /\ tick_ret' # "none"
    /\ worker_req' = worker_req
    /\ now' = now
    /\ fetch_pc' = fetch_pc

\* tick() gets as far as receiving the response at the head of the channel.
TickReceives ==
    /\ IsTickStep
    /\ DOMAIN outstanding_promises # {}
    /\ responses # << >>

\* The driving loop `while tick() {}` has just ended.
LoopEnded == tick_ret \in {"false", "panic"}

\* Timer entries inserted by setTimeout whose callback has not been invoked.
UnfiredTimers ==
    { i \in DOMAIN timers :
        \A j \in DOMAIN fired : fired[j].func # timers[i].func }

\* Positions of the settlements of resolver h in the history.
SettlementsOf(h) == { i \in DOMAIN settled : settled[i].pr = h }

\* Requests whose resolver has been recorded by Context::fetch.
Dispatched ==
    IF fetch_pc = << >> THEN 1..Len(issued) ELSE 1..(Len(issued) - 1)

(* -------------------------------- claims ------------------------------ *)

\* C1 (as stated): whenever tick() has returned false, the pending-response
\* mapping is empty and no timer inserted by setTimeout is still unfired.
C1_TickFalseOnlyWhenNoWork ==
    tick_ret = "false" =>
        /\ DOMAIN outstanding_promises = {}
        /\ UnfiredTimers = {}

\* C2 (as stated): every resolver of a dispatched fetch is settled at most
\* once, only with the result the worker produced for its own request, and
\* exactly once by the time the driving loop has ended.
C2_SettledOnceWithOwnResult ==
    \A h \in Dispatched :
        /\ Cardinality(SettlementsOf(h)) <= 1
        /\ \A i \in SettlementsOf(h) :
              \E w \in worker_results :
                 /\ w.req = h
                 /\ w.value.ok = (settled[i].kind = "resolve")
                 /\ w.value.ok => settled[i].value = w.value.status
        /\ LoopEnded => Cardinality(SettlementsOf(h)) = 1

\* C3 (as stated): a tick() that receives a failure response for a known id
\* rejects the resolver stored under it, removes the entry, returns true and
\* does not panic.
C3_FailureRejectsHandle ==
    [][ ( /\ TickReceives
          /\ Head(responses).id \in DOMAIN outstanding_promises
          /\ ~Head(responses).value.ok )
        =>
        ( /\ host' = "running"
          /\ tick_ret' = "true"
          /\ Head(responses).id \notin DOMAIN outstanding_promises'
          /\ settled' = Append(settled,
                 [pr    |-> outstanding_promises[Head(responses).id],
                  kind  |-> "reject",
                  value |-> 0]) ) ]_vars

\* C4 (as stated): timer callbacks are invoked in ascending fire_at order,
\* ties in insertion order, each at most once, and when the driving loop has
\* ended every inserted entry has been fired and removed from the queue.
C4_TimersFireInOrder ==
    /\ \A i, j \in DOMAIN fired :
          i < j =>
             /\ fired[i].func # fired[j].func
             /\ \/ fired[i].call_at < fired[j].call_at
                \/ /\ fired[i].call_at = fired[j].call_at
                   /\ fired[i].func < fired[j].func
    /\ tick_ret = "false" => Len(timers) = 0

\* C5 (as stated): when the driving loop terminates, every timer scheduled
\* has fired and every dispatched request has had its response applied to
\* its resolver.
C5_LoopEndsWithAllWorkDone ==
    LoopEnded =>
        /\ UnfiredTimers = {}
        /\ \A h \in Dispatched : SettlementsOf(h) # {}

\* C6: a tick() called after a tick() that returned false, with no
\* setTimeout or fetch call in between, returns false, and a tick() that
\* returns false leaves the mapping, both timer queues, the id counter and
\* both channels unchanged.
C6_FalseIsTerminal ==
    [][ IsTickStep =>
          /\ tick_ret = "false" => tick_ret' = "false"
          /\ tick_ret' = "false" =>
                UNCHANGED <<outstanding_promises, timers, tq, promise_counter,
                            requests, responses>> ]_vars

\* C6 witness: the loop has ended after a request was dispatched and settled.
C6_Witness ==
    /\ tick_ret = "false"
    /\ Len(settled) > 0
    /\ promise_counter > 0

\* C7: a tick() that receives a response whose id is not a key of the mapping
\* panics on the engine thread: the response is consumed, no resolver is
\* settled, the mapping is not changed and the worker is not touched.
C7_UnknownIdFaults ==
    [][ ( /\ TickReceives
          /\ Head(responses).id \notin DOMAIN outstanding_promises )
        =>
        ( /\ host' = "panic_unknown_id"
          /\ tick_ret' = "panic"
          /\ responses' = Tail(responses)
          /\ settled' = settled
          /\ outstanding_promises' = outstanding_promises
          /\ worker_req' = worker_req
          /\ requests' = requests ) ]_vars

\* C7 witness: the host has panicked on a response with an unknown id.
C7_Witness == host = "panic_unknown_id"

C9_PendingCountInvariant ==
    fetch_pc = << >> =>
        Cardinality(DOMAIN outstanding_promises) = Len(issued) - Len(settled)

\* C10 (as stated): each id assigned by fetch is greater than every id
\* assigned before and is not a key of the mapping when it is assigned.
C10_IdsIncreasingAndFresh ==
    [][ Len(issued') = Len(issued) + 1 =>
          LET id == issued'[Len(issued')]
          IN  /\ \A i \in DOMAIN issued : issued[i] < id
              /\ id \notin DOMAIN outstanding_promises ]_vars

\* Fetch arguments the claim C11 is about: the resource is missing or not a
\* string, or the init argument or its headers field is present and is not
\* an object.
BadFetchArgs ==
    { args \in FetchArgs :
        \/ args.resource # "string"
        \/ args.init \in {"number", "headers_number"} }

\* C11: a fetch call with such arguments raises an exception and does nothing
\* else: the id counter, the mapping, both channels and the history of
\* requests sent are unchanged and Context::fetch is not entered.
C11_BadFetchHasNoEffect ==
    [][ \A args \in BadFetchArgs :
          fetch(args) =>
             /\ thrown' # ""
             /\ host' = host
             /\ UNCHANGED <<promise_counter, outstanding_promises, requests,
                            responses, issued, fetch_pc, timers, tq,
                            microtasks, settled>> ]_vars

\* C11 witness: a fetch with a non-string resource has thrown while an
\* earlier request is outstanding.
C11_Witness ==
    /\ thrown = "first argument to fetch must be a string"
    /\ DOMAIN outstanding_promises # {}

\* setTimeout arguments without an invocable callback.
NoCallback(args) == args.argc = 0 \/ ~args.is_function

\* C12 (as stated): setTimeout without an invocable callback (none given
\* included) raises an exception; with the delay omitted it enqueues a
\* microtask and inserts no entry; with a non-numeric delay it raises an
\* exception and leaves the queue unchanged; otherwise it inserts exactly
\* one entry with fire_at = epoch milliseconds + delay (the delay as the
\* unsigned number of milliseconds the binding reads) and no interval.
C12_SetTimeoutContract ==
    [][ \A args \in SetTimeoutArgs :
          set_timeout(args) =>
             IF NoCallback(args)
             THEN thrown' # "" /\ UNCHANGED <<timers, microtasks>>
             ELSE IF args.argc = 1
             THEN /\ thrown' = ""
                  /\ Len(microtasks') = Len(microtasks) + 1
                  /\ UNCHANGED timers
             ELSE IF ~args.is_number
             THEN thrown' # "" /\ UNCHANGED <<timers, microtasks>>
             ELSE /\ thrown' = ""
                  /\ Len(timers') = Len(timers) + 1
                  /\ timers'[Len(timers')].call_at = now + as_u128(args.delay)
                  /\ timers'[Len(timers')].interval = "None"
                  /\ \A i \in DOMAIN timers : timers'[i] = timers[i]
                  /\ UNCHANGED microtasks ]_vars

\* JSTime::create has just returned.
CreateReturns == boot_pc # "ready" /\ boot_pc' = "ready"

\* The execution-context state every host starts with.
FreshContext ==
    /\ timers' = << >>
    /\ tq' = << >>
    /\ outstanding_promises' = << >>
    /\ promise_counter' = 0
    /\ requests' = << >>
    /\ responses' = << >>
    /\ worker_req' = << >>

\* C13 (as stated): created from a snapshot the host installs no binding and
\* evaluates no unit; created without one it installs the bindings and
\* evaluates console, crypto, timers, performance, encoders, microtask-queue
\* once each in this order; both start with the same context state.
C13_BootOrderAsStated ==
    [][ CreateReturns =>
          /\ snapshot => bindings' = {} /\ evaluated' = << >>
          /\ ~snapshot =>
                /\ bindings' = binding_names
                /\ evaluated' = << "./console.js", "./crypto.js",
                                   "./timers.js", "./performance.js",
                                   "./encoders.js", "./queue_microtask.js" >>
          /\ FreshContext ]_vars

\* C13 (amended): as stated, but the units evaluated without a snapshot are
\* console, crypto, timers, fetch, performance, encoders, microtask-queue.
C13_BootOrder ==
    [][ CreateReturns =>
          /\ snapshot => bindings' = {} /\ evaluated' = << >>
          /\ ~snapshot =>
                /\ bindings' = binding_names
                /\ evaluated' = << "./console.js", "./crypto.js",
                                   "./timers.js", "./fetch.js",
                                   "./performance.js", "./encoders.js",
                                   "./queue_microtask.js" >>
          /\ FreshContext ]_vars

\* C13 witness: a host created without a snapshot is ready, has evaluated
\* its units and has scheduled a timer.
C13_Witness ==
    /\ boot_pc = "ready"
    /\ ~snapshot
    /\ Len(evaluated) = 7
    /\ Len(timers) = 1

\* C15 (as stated): with a request outstanding and a timer scheduled by
\* setTimeout pending, the wait of tick() is bounded: tick() can always
\* complete, returning true without a response if none has arrived.
C15_WaitBoundedWhenTimerPending ==
    ( /\ EngineReady
      /\ DOMAIN outstanding_promises # {}
      /\ UnfiredTimers # {} )
    => ENABLED tick

\* A step of the worker thread.
IsWorkerStep == worker_req' # worker_req

\* The worker sends a response (it finishes the request it was serving).
WorkerSends == worker_req # << >> /\ worker_req' = << >>

\* C16: the worker has sent one response for every request it has taken and
\* finished; the response it sends carries the id of the request and the
\* result of its call, a failure included; after it the worker is back at
\* the head of its loop, where it takes the next request of the channel.
C16_WorkerAnswersEveryRequest ==
    /\ [] ( Cardinality(worker_results) + Len(worker_req) + Len(requests)
              = Len(issued) )
    /\ [][ WorkerSends =>
             /\ Len(responses') = Len(responses) + 1
             /\ responses'[Len(responses')].id = worker_req[1].id
             /\ [req   |-> worker_req[1].value,
                 value |-> responses'[Len(responses')].value]
                   \in worker_results' \ worker_results
             /\ \A i \in DOMAIN responses : responses'[i] = responses[i]
             /\ requests' = requests ]_vars
    /\ [] ( (worker_req = << >> /\ requests # << >>) => ENABLED WorkerRecv )

\* C16 witness: the worker has sent a failure response and after it the
\* response of a later request.
C16_Witness ==
    /\ Len(responses) >= 2
    /\ ~responses[1].value.ok
    /\ responses[2].id # responses[1].id

\* C17: a step of the worker thread changes nothing but its own request and
\* the two channels (and the record of the results it produced).
C17_WorkerTouchesOnlyChannels ==
    [][ IsWorkerStep =>
          UNCHANGED <<outstanding_promises, timers, tq, promise_counter,
                      fetch_pc, host, thrown, microtasks, settled, fired,
                      issued, tick_ret>> ]_vars

\* C17 witness: the worker has answered one request and is serving another
\* while the engine thread is inside Context::fetch, with entries in the
\* mapping and a timer in the queue.
C17_Witness ==
    /\ worker_req # << >>
    /\ responses # << >>
    /\ fetch_pc # << >>
    /\ DOMAIN outstanding_promises # {}
    /\ Len(timers) > 0

\* C18: the TimerQueue of the Context, the one tick() tests, is empty in
\* every reachable state.
C18_ContextQueueAlwaysEmpty == TimerQueue_empty(tq)

\* C18 witness: tick() has run and received a response while an entry
\* inserted by setTimeout is in the queue of the isolate slot.
C18_Witness ==
    /\ Len(timers) > 0
    /\ tick_ret = "true"

\* C19 (as stated): resolvers are settled in ascending order of the ids of
\* their requests.
C19_SettledInAscendingIdOrder ==
    \A i, j \in DOMAIN settled :
        i < j => issued[settled[i].pr] < issued[settled[j].pr]

\* The id counter has not wrapped: the n-th request was given the id n.
NoWrapYet == \A i \in DOMAIN issued : issued[i] = i

\* C20: as long as the id counter has not wrapped, the id of every response
\* tick() receives is a key of the mapping.
C20_ReceivedIdIsPending ==
    [][ (TickReceives /\ NoWrapYet) =>
          Head(responses).id \in DOMAIN outstanding_promises ]_vars

\* C20 witness: the worker has answered a request before Context::fetch
\* recorded its resolver, after tick() settled an earlier one.
C20_Witness ==
    /\ NoWrapYet
    /\ fetch_pc # << >>
    /\ \E i \in DOMAIN responses : responses[i].id = fetch_pc[1].id
    /\ Len(settled) >= 1

====
